---- MODULE Spec2Model ----
(***************************************************************************)
(* A model of galvanize's StateGraph: the dependency index, the two        *)
(* propagation algorithms (push_fast, push_accurate), update,              *)
(* dispatch_change, ThrottleRequest, the promise a request returns and the *)
(* mirror of an external ObjectProperty.                                   *)
(*                                                                         *)
(* JavaScript runs every handler to completion, so each public call and    *)
(* each promise reaction is one action; what happens inside a handler is   *)
(* computed by operators that thread a machine record through the steps of *)
(* the code and append every write, compute, notification and request call *)
(* to `log`, the trace of the handler that ran last.                       *)
(***************************************************************************)
EXTENDS Integers, Sequences, FiniteSets, TLC

VARIABLES
    graph,              \* the StateGraphArgs the graph was constructed from
    push_default_mode,  \* StateGraph.push_default_mode
    state,              \* StateGraph.state, the slots the graph owns
    ext,                \* the field of the external object behind each mirrored Property
    in_progress,        \* ThrottleRequest's in_progress flag, one per throttled request
    promises,           \* every promise a request function has returned
    watchers,           \* StateGraph.watchers
    global_watchers,    \* StateGraph.global_watchers
    log,                \* trace of the last handler
    closures,           \* the unregistration closures watch and watch_all have returned
    ncalls,             \* pushes and property sets the program has made
    hung                \* the last handler did not return within Fuel loop iterations

vars == <<graph, push_default_mode, state, ext, in_progress, promises,
          watchers, global_watchers, closures, log, ncalls, hung>>

(***************************************************************************)
(* Bounds of the model.                                                    *)
(***************************************************************************)
\* calls of push and of a mirrored Property's setter the program makes in one behaviour
MaxCalls == 2
\* loop iterations one handler may take before it is declared hung
Fuel == 60
\* watcher registrations per list
MaxWatch == 2

(***************************************************************************)
(* Values: JavaScript numbers, undefined and NaN.                          *)
(***************************************************************************)
Undefined == [t |-> "undefined"]
NaN == [t |-> "NaN"]
Num(n) == [t |-> "number", n |-> n]

IsNum(v) == v.t = "number"

\* a + b on numbers; undefined or NaN on either side gives NaN
Add(a, b) == IF IsNum(a) /\ IsNum(b) THEN Num(a.n + b.n) ELSE NaN

(***************************************************************************)
(* Sequence helpers.                                                       *)
(***************************************************************************)
Range(s) == {s[i] : i \in 1..Len(s)}

Has(s, x) == \E i \in 1..Len(s) : s[i] = x

\* Array.prototype.filter(x => x !== y)
Without(s, y) == SelectSeq(s, LAMBDA x : x # y)

\* position of the first occurrence of x in s, 0 when absent
RECURSIVE IndexFrom(_, _, _)
IndexFrom(s, x, i) ==
    IF i > Len(s) THEN 0
    ELSE IF s[i] = x THEN i
    ELSE IndexFrom(s, x, i + 1)

IndexOf(s, x) == IndexFrom(s, x, 1)

\* s without its i-th element
Drop(s, i) == SubSeq(s, 1, i - 1) \o SubSeq(s, i + 1, Len(s))

(***************************************************************************)
(* Deriver records and the graphs the model is run on.                     *)
(***************************************************************************)
\* an ExplicitlyDerived whose func adds `offset` to the sum of its params;
\* order "" stands for no order given
Deriver(params, offset, order) ==
    [params |-> params, offset |-> offset, order |-> order,
     is_request |-> FALSE, throttled |-> FALSE]

\* an entry of args.requests: its func returns a promise of the same sum;
\* throttled when the func is wrapped with ThrottleRequest
Request(params, offset, throttled) ==
    [params |-> params, offset |-> offset, order |-> "",
     is_request |-> TRUE, throttled |-> throttled]

\* the README's example graph
GReadme ==
    [keys |-> {"A", "B"}, reg |-> <<"B">>,
     derivers |-> [k \in {"B"} |-> Deriver(<<"A">>, 5, "")],
     props |-> {}, defaults |-> <<<<"A", Num(0)>>>>]

\* A -> B -> C with C also reading A, C registered before B; D reads B alone
GChain ==
    [keys |-> {"A", "B", "C", "D"}, reg |-> <<"C", "B", "D">>,
     derivers |-> [k \in {"B", "C", "D"} |->
        IF k = "B" THEN Deriver(<<"A">>, 1, "")
        ELSE IF k = "C" THEN Deriver(<<"A", "B">>, 0, "")
        ELSE Deriver(<<"B">>, 2, "")],
     props |-> {}, defaults |-> <<<<"A", Num(0)>>>>]

\* X <-> Y with Z downstream of X; tie-break by the keys' names
GCycle ==
    [keys |-> {"X", "Y", "Z"}, reg |-> <<"X", "Y", "Z">>,
     derivers |-> [k \in {"X", "Y", "Z"} |->
        IF k = "X" THEN Deriver(<<"Y">>, 1, "")
        ELSE IF k = "Y" THEN Deriver(<<"X">>, 2, "")
        ELSE Deriver(<<"X">>, 0, "")],
     props |-> {}, defaults |-> <<<<"X", Num(0)>>, <<"Y", Num(0)>>>>]

\* X <-> Y where X carries the explicit order "z": Y sorts first
GCycleOrder ==
    [keys |-> {"X", "Y"}, reg |-> <<"X", "Y">>,
     derivers |-> [k \in {"X", "Y"} |->
        IF k = "X" THEN Deriver(<<"Y">>, 1, "z") ELSE Deriver(<<"X">>, 2, "")],
     props |-> {}, defaults |-> <<<<"X", Num(0)>>, <<"Y", Num(0)>>>>]

\* a request R on A, and a deriver D on R
GRequest(throttled) ==
    [keys |-> {"A", "R", "D"}, reg |-> <<"D", "R">>,
     derivers |-> [k \in {"D", "R"} |->
        IF k = "D" THEN Deriver(<<"R">>, 1, "") ELSE Request(<<"A">>, 100, throttled)],
     props |-> {}, defaults |-> <<<<"A", Num(0)>>>>]

\* N mirrors an external ObjectProperty; D reads N and A
GMirror ==
    [keys |-> {"N", "A", "D"}, reg |-> <<"D">>,
     derivers |-> [k \in {"D"} |-> Deriver(<<"N", "A">>, 0, "")],
     props |-> {"N"}, defaults |-> <<<<"A", Num(0)>>>>]

Graphs == {GReadme, GChain, GCycle, GCycleOrder, GRequest(FALSE), GRequest(TRUE), GMirror}

HasDeriver(g, k) == k \in DOMAIN g.derivers

IsRequest(g, k) == HasDeriver(g, k) /\ g.derivers[k].is_request

IsSync(g, k) == HasDeriver(g, k) /\ ~g.derivers[k].is_request

(***************************************************************************)
(* The dependency index: the constructor's loop over this.derivers.        *)
(* A key nobody depends on maps to <<>> (the code leaves it undefined and  *)
(* tests it with `if(dep)`).                                               *)
(***************************************************************************)
RECURSIVE AddParams(_, _, _, _)
AddParams(d, name, params, i) ==
    IF i > Len(params) THEN d
    ELSE AddParams([d EXCEPT ![params[i]] = Append(@, name)], name, params, i + 1)

RECURSIVE AddDerivers(_, _, _)
AddDerivers(d, g, i) ==
    IF i > Len(g.reg) THEN d
    ELSE AddDerivers(AddParams(d, g.reg[i], g.derivers[g.reg[i]].params, 1), g, i + 1)

\* an index that was never filled in
deps_Empty(g) == [k \in g.keys |-> <<>>]

deps(g) == AddDerivers([k \in g.keys |-> <<>>], g, 1)

(***************************************************************************)
(* The deriver functions of the model: offset + the sum of the params.     *)
(***************************************************************************)
RECURSIVE SumParams(_, _, _, _)
SumParams(acc, params, view, i) ==
    IF i > Len(params) THEN acc
    ELSE SumParams(Add(acc, view[params[i]]), params, view, i + 1)

\* d.func(this.state, this)
func(d, view) == SumParams(Num(d.offset), d.params, view, 1)

(***************************************************************************)
(* String.prototype.localeCompare on the strings the graphs use, by their  *)
(* position in the collation order (lower case before upper case of the    *)
(* same letter).                                                           *)
(***************************************************************************)
Collation == <<"a", "A", "b", "B", "C", "D", "N", "R", "X", "Y", "z", "Z">>

localeCompare(a, b) == IndexOf(Collation, a) - IndexOf(Collation, b)

\* this.derivers[a]?.order || String(a)
SortKey(g, k) == IF HasDeriver(g, k) /\ g.derivers[k].order # "" THEN g.derivers[k].order ELSE k

\* the comparator of the cycle fallback
CompareKeys(g, a, b) == localeCompare(SortKey(g, a), SortKey(g, b))

\* Array.prototype.sort: stable, by insertion of each element after the
\* last one that does not compare greater
RECURSIVE InsertAt(_, _, _, _)
InsertAt(g, sorted, x, i) ==
    IF i > Len(sorted) THEN Append(sorted, x)
    ELSE IF CompareKeys(g, sorted[i], x) > 0
         THEN SubSeq(sorted, 1, i - 1) \o <<x>> \o SubSeq(sorted, i, Len(sorted))
         ELSE InsertAt(g, sorted, x, i + 1)

RECURSIVE SortFrom(_, _, _, _)
SortFrom(g, s, sorted, i) ==
    IF i > Len(s) THEN sorted
    ELSE SortFrom(g, s, InsertAt(g, sorted, s[i], 1), i + 1)

\* the keys left, in insertion order
sort_Unsorted(g, s) == s

sort(g, s) == SortFrom(g, s, <<>>, 1)

(***************************************************************************)
(* The machine a handler runs on.  c is what a handler only reads: the     *)
(* graph, its dependency index, the watcher lists and the default mode.    *)
(* m is what it changes: state, ext, in_progress, promises, the log, and   *)
(* the call stack, one frame per push in progress (a push nests in another *)
(* when a write to a mirrored key fires the Property's watcher).           *)
(***************************************************************************)
Context(g, w, gw, mode) ==
    [g |-> g, deps |-> deps(g), watchers |-> w, global_watchers |-> gw, mode |-> mode]

\* this.state as code reads it: a mirrored key reads the external object
View(c, m) == [k \in c.g.keys |-> IF k \in c.g.props THEN m.ext[k] ELSE m.state[k]]

\* the batch keys of the pushes in progress that are not written yet
Unwritten(m) == UNION {m.frames[i].unwritten : i \in 1..Len(m.frames)}

Event(m, op, key, val, aux) ==
    [op |-> op, key |-> key, val |-> val, aux |-> aux,
     unwritten |-> Unwritten(m), depth |-> Len(m.frames)]

Emit(m, op, key, val, aux) == [m EXCEPT !.log = Append(@, Event(m, op, key, val, aux))]

Keys(batch) == [i \in 1..Len(batch) |-> batch[i][1]]

\* a watcher is a listener: calling it records what it is told and what it can read
RECURSIVE CallWatchers(_, _, _, _, _, _)
CallWatchers(c, m, key, ws, scope, i) ==
    IF i > Len(ws) THEN m
    ELSE CallWatchers(c, Emit(m, "notify", key, ws[i], [scope |-> scope, view |-> View(c, m)]),
                      key, ws, scope, i + 1)

\* a dispatch that calls the global watchers before the key's own
dispatch_change_GlobalFirst(c, m, key) ==
    CallWatchers(c, CallWatchers(c, m, key, c.global_watchers, "global", 1),
                 key, c.watchers[key], "key", 1)

\* StateGraph.dispatch_change
dispatch_change(c, m, key) ==
    CallWatchers(c, CallWatchers(c, m, key, c.watchers[key], "key", 1),
                 key, c.global_watchers, "global", 1)

\* the promise a request function returns: it will resolve with the sum the
\* function read when it was called, or reject
NewPromise(d, key, view, connected) ==
    [key |-> key, val |-> func(d, view), throttled |-> d.throttled,
     connected |-> connected, stage |-> "pending", outcome |-> "none"]

\* the request function itself: always returns a promise
request(c, m, key) ==
    LET p == NewPromise(c.g.derivers[key], key, View(c, m), TRUE)
    IN  [Emit(m, "request", key, p.val, Len(m.promises) + 1) EXCEPT !.promises = Append(@, p)]

\* a wrapper that never looks at its flag
ThrottleRequest_NoGuard(c, m, key) == [request(c, m, key) EXCEPT !.in_progress[key] = TRUE]

\* the function ThrottleRequest returns
ThrottleRequest(c, m, key) ==
    IF m.in_progress[key]
    THEN Emit(m, "throttled", key, Undefined, 0)
    ELSE [request(c, m, key) EXCEPT !.in_progress[key] = TRUE]

\* d.func(this.state, this) of a request, and the .then/.catch update chains on it
CallRequest(c, m, key) ==
    IF c.g.derivers[key].throttled
    THEN ThrottleRequest(c, Emit(m, "call", key, Undefined, m.in_progress[key]), key)
    ELSE request(c, Emit(m, "call", key, Undefined, FALSE), key)

\* an update that calls a request without looking at the batch
update_AlwaysCalls(c, m, key, batchKeys, to_be_updated, phase) ==
    LET m1 == Emit(m, "update", key, phase, to_be_updated)
    IN  IF ~HasDeriver(c.g, key) THEN m1
        ELSE IF c.g.derivers[key].is_request THEN CallRequest(c, m1, key)
             ELSE LET v == func(c.g.derivers[key], View(c, m1))
                  IN  dispatch_change(c, [Emit(m1, "compute", key, v, View(c, m1))
                                             EXCEPT !.state[key] = v], key)

\* an update that leaves a batch key alone, whatever its deriver
update_KeepsBatch(c, m, key, batchKeys, to_be_updated, phase) ==
    LET m1 == Emit(m, "update", key, phase, to_be_updated)
    IN  IF ~HasDeriver(c.g, key) THEN m1
        ELSE IF Has(batchKeys, key) THEN dispatch_change(c, m1, key)
        ELSE IF c.g.derivers[key].is_request THEN CallRequest(c, m1, key)
             ELSE LET v == func(c.g.derivers[key], View(c, m1))
                  IN  dispatch_change(c, [Emit(m1, "compute", key, v, View(c, m1))
                                             EXCEPT !.state[key] = v], key)

\* StateGraph.update; to_be_updated and phase only go to the log.  No graph
\* of the model gives a mirrored key a deriver, so the write is a plain one.
update(c, m, key, batchKeys, to_be_updated, phase) ==
    LET m1 == Emit(m, "update", key, phase, to_be_updated)
    IN  IF ~HasDeriver(c.g, key) THEN m1
        ELSE IF c.g.derivers[key].is_request
             THEN IF Has(batchKeys, key) THEN dispatch_change(c, m1, key)
                  ELSE CallRequest(c, m1, key)
             ELSE LET v == func(c.g.derivers[key], View(c, m1))
                  IN  dispatch_change(c, [Emit(m1, "compute", key, v, View(c, m1))
                                             EXCEPT !.state[key] = v], key)

\* every key is taken to be ready
canUpdate_Always(g, key, to_be_updated) == TRUE

\* to_be_updated.has(d) for none of the deriver's params
canUpdate(g, key, to_be_updated) ==
    IF HasDeriver(g, key)
    THEN \A i \in 1..Len(g.derivers[key].params) : ~Has(to_be_updated, g.derivers[key].params[i])
    ELSE TRUE

\* Object.fromEntries(d.map(dep => [dep, this.state[dep]])): a repeated key keeps its first place
RECURSIVE FromEntries(_, _, _, _)
FromEntries(d, view, acc, i) ==
    IF i > Len(d) THEN acc
    ELSE FromEntries(d, view,
                     IF Has(Keys(acc), d[i]) THEN acc ELSE Append(acc, <<d[i], view[d[i]]>>),
                     i + 1)

(***************************************************************************)
(* The call stack.  A frame is one call of push: where it is (pc) and its  *)
(* locals.                                                                 *)
(***************************************************************************)
Top(m) == m.frames[Len(m.frames)]

SetTop(m, f) == [m EXCEPT !.frames[Len(m.frames)] = f]

\* StateGraph.push: the call enters push_fast or push_accurate; mode "null"
\* stands for no mode given
push(c, m, newState, mode) ==
    LET fast == (IF mode = "null" THEN c.mode ELSE mode) = "fast"
        f == [fast |-> fast, pc |-> IF fast THEN "assign" ELSE "closure",
              newState |-> newState, queue |-> Keys(newState), visited |-> <<>>,
              to_be_updated |-> <<>>, members |-> <<>>, i |-> 1, order |-> <<>>,
              any_updated |-> FALSE, unwritten |-> Range(Keys(newState))]
    IN  [Emit(m, "push", "", newState, [mode |-> mode, fast |-> fast]) EXCEPT !.frames = Append(@, f)]

\* a push that returns its list without the first key it updated
Return_Tail(m, list) ==
    LET rest == IF list = <<>> THEN list ELSE Tail(list)
    IN  [Emit(m, "return", "", rest, 0) EXCEPT !.frames = SubSeq(@, 1, Len(@) - 1), !.ret = rest]

\* a push returns: its frame is dropped and its list kept
Return(m, list) ==
    [Emit(m, "return", "", list, 0) EXCEPT !.frames = SubSeq(@, 1, Len(@) - 1), !.ret = list]

\* a watcher on the Property that announces the change and pushes nothing
MirrorWatcher_NoPush(c, m, name) == dispatch_change(c, m, name)

\* the watcher the constructor registers on a mirrored Property
MirrorWatcher(c, m, name) ==
    LET m1 == dispatch_change(c, m, name)
        d == c.deps[name]
    IN  IF d = <<>> THEN m1
        ELSE push(c, m1, FromEntries(d, View(c, m1), <<>>, 1), "null")

\* ObjectProperty.set value: the external field, then the Property's watchers
SetValue(c, m, name, newValue) ==
    MirrorWatcher(c, Emit([m EXCEPT !.ext[name] = newValue], "write", name, newValue, "ext"), name)

\* one key of Object.assign(this.state, newState); a mirrored key goes
\* through the Property's setter
Assign(c, m, f, nextpc) ==
    IF f.i > Len(f.newState) THEN SetTop(m, [f EXCEPT !.pc = nextpc, !.i = 1])
    ELSE LET key == f.newState[f.i][1]
             value == f.newState[f.i][2]
             m1 == SetTop(m, [f EXCEPT !.i = @ + 1, !.unwritten = @ \ {key}])
         IN  IF key \in c.g.props THEN SetValue(c, m1, key, value)
             ELSE Emit([m1 EXCEPT !.state[key] = value], "write", key, value, "state")

\* a fast push that updates the batch keys and queues no dependents
push_fast_BatchOnly(c, m, f) ==
    IF f.pc = "assign" THEN Assign(c, m, f, "loop")
    ELSE IF f.queue = <<>> THEN Return(m, f.visited)
    ELSE LET n == Head(f.queue)
         IN  SetTop(update(c, m, n, Keys(f.newState), <<>>, "fast"),
                    [f EXCEPT !.queue = Tail(@), !.visited = Append(@, n)])

\* a fast push that queues only the dependents it has neither visited nor queued
push_fast_VisitOnce(c, m, f) ==
    IF f.pc = "assign" THEN Assign(c, m, f, "loop")
    ELSE IF f.queue = <<>> THEN Return(m, f.visited)
    ELSE LET n == Head(f.queue)
             seen == Append(f.visited, n) \o Tail(f.queue)
             fresh == SelectSeq(c.deps[n], LAMBDA d : ~Has(seen, d))
         IN  SetTop(update(c, m, n, Keys(f.newState), <<>>, "fast"),
                    [f EXCEPT !.queue = Tail(@) \o fresh, !.visited = Append(@, n)])

\* one step of StateGraph.push_fast
push_fast(c, m, f) ==
    IF f.pc = "assign" THEN Assign(c, m, f, "loop")
    ELSE IF f.queue = <<>> THEN Return(m, f.visited)
    ELSE LET n == Head(f.queue)
         IN  SetTop(update(c, m, n, Keys(f.newState), <<>>, "fast"),
                    [f EXCEPT !.queue = Tail(@) \o c.deps[n], !.visited = Append(@, n)])

\* a closure loop that queues dependents already marked
Closure_NoFilter(c, m, f) ==
    IF f.queue = <<>> THEN SetTop(Emit(m, "closure", "", f.to_be_updated, 0), [f EXCEPT !.pc = "assign"])
    ELSE LET front == Head(f.queue)
             added == IF Has(f.to_be_updated, front) THEN f.to_be_updated
                      ELSE Append(f.to_be_updated, front)
         IN  SetTop(m, [f EXCEPT !.queue = Tail(@) \o c.deps[front], !.to_be_updated = added])

\* one iteration of the first while loop of push_accurate: the closure of the batch
Closure(c, m, f) ==
    IF f.queue = <<>> THEN SetTop(Emit(m, "closure", "", f.to_be_updated, 0), [f EXCEPT !.pc = "assign"])
    ELSE LET front == Head(f.queue)
             added == IF Has(f.to_be_updated, front) THEN f.to_be_updated
                      ELSE Append(f.to_be_updated, front)
             more == SelectSeq(c.deps[front], LAMBDA d : ~Has(added, d))
         IN  SetTop(m, [f EXCEPT !.queue = Tail(@) \o more, !.to_be_updated = added])

\* the head of the second while loop of push_accurate, and the `if` after it
Stabilize(c, m, f) ==
    IF f.to_be_updated = <<>> THEN Return(m, f.order)
    ELSE SetTop(m, [f EXCEPT !.pc = "scan", !.members = f.to_be_updated, !.i = 1,
                             !.any_updated = FALSE])

\* one member of `for (const u of to_be_updated)`: members in insertion
\* order, a member the scan deleted is not visited again
Scan(c, m, f) ==
    IF f.i > Len(f.members)
    THEN IF f.any_updated THEN SetTop(m, [f EXCEPT !.pc = "stabilize"])
         ELSE SetTop(m, [f EXCEPT !.pc = "fallback", !.members = sort(c.g, f.to_be_updated),
                                  !.i = 1])
    ELSE LET u == f.members[f.i]
         IN  IF canUpdate(c.g, u, f.to_be_updated)
             THEN SetTop(update(c, m, u, Keys(f.newState), f.to_be_updated, "stabilize"),
                         [f EXCEPT !.i = @ + 1, !.order = Append(@, u),
                                   !.to_be_updated = Without(@, u), !.any_updated = TRUE])
             ELSE SetTop(m, [f EXCEPT !.i = @ + 1])

\* the cycle fallback: one of the keys left, in sorted order
Fallback(c, m, f) ==
    IF f.i > Len(f.members) THEN Return(m, f.order)
    ELSE LET u == f.members[f.i]
         IN  SetTop(update(c, m, u, Keys(f.newState), f.to_be_updated, "fallback"),
                    [f EXCEPT !.i = @ + 1, !.order = Append(@, u),
                              !.to_be_updated = Without(@, u)])

\* one step of StateGraph.push_accurate
push_accurate(c, m, f) ==
    CASE f.pc = "closure" -> Closure(c, m, f)
      [] f.pc = "assign" -> Assign(c, m, f, "stabilize")
      [] f.pc = "stabilize" -> Stabilize(c, m, f)
      [] f.pc = "scan" -> Scan(c, m, f)
      [] OTHER -> Fallback(c, m, f)

\* one step of the push on top of the stack
Step(c, m) == IF Top(m).fast THEN push_fast(c, m, Top(m)) ELSE push_accurate(c, m, Top(m))

\* the handler runs until its stack is empty; one that takes more than Fuel
\* steps is taken never to return
RECURSIVE Run(_, _)
Run(c, m) ==
    IF m.frames = <<>> THEN m
    ELSE IF m.fuel = 0 THEN [m EXCEPT !.hung = TRUE]
    ELSE Run(c, Step(c, [m EXCEPT !.fuel = @ - 1]))

(***************************************************************************)
(* The state machine.                                                      *)
(***************************************************************************)
\* the values and the batches the callers of the model push
PushValues == {Num(1), Num(10)}

Batches(g) ==
    {<<<<k, v>>>> : k \in g.keys, v \in PushValues}
    \cup {<<<<k[1], Num(1)>>, <<k[2], Num(2)>>>> : k \in {kk \in g.keys \X g.keys : kk[1] # kk[2]}}

Modes == {"fast", "accurate"}

\* the functions callers register as watchers
WatcherFns == {"w", "g"}

\* the machine at the start of a handler
Machine(st, ex, ip, ps) ==
    [state |-> st, ext |-> ex, in_progress |-> ip, promises |-> ps,
     log |-> <<>>, frames |-> <<>>, fuel |-> Fuel, hung |-> FALSE, ret |-> <<>>]

Current == Machine(state, ext, in_progress, promises)

Here == Context(graph, watchers, global_watchers, push_default_mode)

\* this.state as a caller reads it between handlers
CurView == [k \in graph.keys |-> IF k \in graph.props THEN ext[k] ELSE state[k]]

\* what a handler leaves behind
Commit(m) ==
    /\ state' = m.state
    /\ ext' = m.ext
    /\ in_progress' = m.in_progress
    /\ promises' = m.promises
    /\ log' = m.log
    /\ hung' = m.hung

\* the derivers and requests given as bare functions, in the order the
\* constructor comes to them; a graph that names none has none
Probed(g) == IF "probed" \in DOMAIN g THEN g.probed ELSE <<>>

\* an extraction that takes the params as given and calls nothing
ExtractDeriver_NoCall(c, m, key) == Emit(m, "probe", key, Undefined, 0)

\* ExtractDeriver: fn(getter), every read of the reporter giving undefined.
\* A synchronous function returns a value that is dropped; a request's
\* function runs as it always does and returns a promise nobody keeps.
ExtractDeriver(c, m, key) ==
    LET m1 == Emit(m, "probe", key, Undefined, 0)
        probe == [m1 EXCEPT !.state = [k \in c.g.keys |-> Undefined],
                            !.ext = [k \in c.g.props |-> Undefined]]
        called == IF c.g.derivers[key].throttled THEN ThrottleRequest(c, probe, key)
                  ELSE request(c, probe, key)
    IN  IF ~c.g.derivers[key].is_request THEN m1
        ELSE [called EXCEPT !.state = m.state, !.ext = m.ext,
                            !.promises[Len(called.promises)].connected = FALSE]

\* the constructor's two Object.entries(...).map calls over the bare functions
RECURSIVE ExtractAll(_, _, _, _)
ExtractAll(c, m, keys, i) ==
    IF i > Len(keys) THEN m ELSE ExtractAll(c, ExtractDeriver(c, m, keys[i]), keys, i + 1)

\* new StateGraph(args): empty state, no watchers, mode "accurate"; the bare
\* functions are probed, then the defaults push
Construct(g) ==
    LET c == Context(g, [k \in g.keys |-> <<>>], <<>>, "accurate")
        m0 == Machine([k \in g.keys |-> Undefined], [k \in g.props |-> Num(0)],
                      [k \in {r \in DOMAIN g.derivers : g.derivers[r].throttled} |-> FALSE], <<>>)
        m == ExtractAll(c, m0, Probed(g), 1)
    IN  IF g.defaults = <<>> THEN m ELSE Run(c, push(c, m, g.defaults, "null"))

\* the watchers a program registers once the graph is built: none, or one
\* on every key and a global one
WatchSetups(g) ==
    {[watchers |-> [k \in g.keys |-> <<>>], global_watchers |-> <<>>],
     [watchers |-> [k \in g.keys |-> <<"w">>], global_watchers |-> <<"g">>]}

\* a program builds the graph, picks the default mode and registers its watchers
InitWith(g, mode, ws) ==
    LET m == Construct(g)
    IN  /\ graph = g
        /\ push_default_mode = mode
        /\ state = m.state
        /\ ext = m.ext
        /\ in_progress = m.in_progress
        /\ promises = m.promises
        /\ watchers = ws.watchers
        /\ global_watchers = ws.global_watchers
        /\ closures = {}
        /\ log = m.log
        /\ ncalls = 0
        /\ hung = m.hung

Init == \E g \in Graphs, mode \in Modes : \E ws \in WatchSetups(g) : InitWith(g, mode, ws)

\* graph.push(newState, mode) called by the program
Push(newState, mode) ==
    /\ ~hung
    /\ ncalls < MaxCalls
    /\ Commit(Run(Here, push(Here, Current, newState, mode)))
    /\ ncalls' = ncalls + 1
    /\ UNCHANGED <<graph, push_default_mode, watchers, global_watchers, closures>>

\* graph.push_default_mode = mode
SetDefaultMode(mode) ==
    /\ ~hung
    /\ ncalls = 0
    /\ mode # push_default_mode
    /\ push_default_mode' = mode
    /\ log' = <<>>
    /\ UNCHANGED <<graph, state, ext, in_progress, promises, watchers, global_watchers,
                   closures, ncalls, hung>>

\* property.value = newValue on the external ObjectProperty behind a mirrored key
SetProperty(name, newValue) ==
    /\ ~hung
    /\ ncalls < MaxCalls
    /\ name \in graph.props
    /\ Commit(Run(Here, SetValue(Here, Current, name, newValue)))
    /\ ncalls' = ncalls + 1
    /\ UNCHANGED <<graph, push_default_mode, watchers, global_watchers, closures>>

RECURSIVE SumLen(_, _)
SumLen(f, S) ==
    IF S = {} THEN 0
    ELSE LET k == CHOOSE x \in S : TRUE IN Len(f[k]) + SumLen(f, S \ {k})

\* watcher registrations in place
Registrations == Len(global_watchers) + SumLen(watchers, DOMAIN watchers)

\* graph.watch(name, watcher); the closure it returns is kept in `closures`
\* under the number of the registration, with whether it has been called
Watch(name, watcher) ==
    /\ ~hung
    /\ Cardinality(closures) < MaxWatch
    /\ watchers' = [watchers EXCEPT ![name] = Append(@, watcher)]
    /\ closures' = closures \cup {[id |-> Cardinality(closures) + 1, list |-> name,
                                   watcher |-> watcher, called |-> FALSE]}
    /\ log' = <<[op |-> "watch", key |-> name, val |-> watcher, aux |-> Cardinality(closures) + 1,
                 unwritten |-> {}, depth |-> 0]>>
    /\ UNCHANGED <<graph, push_default_mode, state, ext, in_progress, promises,
                   global_watchers, ncalls, hung>>

\* graph.watch_all(watcher)
WatchAll(watcher) ==
    /\ ~hung
    /\ Cardinality(closures) < MaxWatch
    /\ global_watchers' = Append(global_watchers, watcher)
    /\ closures' = closures \cup {[id |-> Cardinality(closures) + 1, list |-> "*",
                                   watcher |-> watcher, called |-> FALSE]}
    /\ log' = <<[op |-> "watch", key |-> "*", val |-> watcher, aux |-> Cardinality(closures) + 1,
                 unwritten |-> {}, depth |-> 0]>>
    /\ UNCHANGED <<graph, push_default_mode, state, ext, in_progress, promises,
                   watchers, ncalls, hung>>

\* a call of a closure watch or watch_all returned: the list is replaced by
\* its filter x => x !== watcher
Unwatch(cl) ==
    /\ ~hung
    /\ cl \in closures
    /\ IF cl.list = "*"
       THEN /\ global_watchers' = Without(global_watchers, cl.watcher)
            /\ UNCHANGED watchers
       ELSE /\ watchers' = [watchers EXCEPT ![cl.list] = Without(@, cl.watcher)]
            /\ UNCHANGED global_watchers
    /\ closures' = (closures \ {cl}) \cup {[cl EXCEPT !.called = TRUE]}
    /\ log' = <<[op |-> "unwatch", key |-> cl.list, val |-> cl.watcher,
                 aux |-> [id |-> cl.id, again |-> cl.called], unwritten |-> {}, depth |-> 0]>>
    /\ UNCHANGED <<graph, push_default_mode, state, ext, in_progress, promises,
                   ncalls, hung>>

(***************************************************************************)
(* A promise a request returned: it settles (the program's asynchronous    *)
(* work resolves or rejects it), then its reactions run, each a handler of *)
(* its own: ThrottleRequest's finally callback first, then update's then   *)
(* callback or catch callback; after that nothing refers to the promise    *)
(* and it is dropped.  The then callback logs the state it found.          *)
(***************************************************************************)
Outcomes == {"resolved", "rejected"}

Settle(i, outcome) ==
    /\ ~hung
    /\ i \in 1..Len(promises)
    /\ promises[i].stage = "pending"
    /\ promises' = [promises EXCEPT ![i].stage = "settled", ![i].outcome = outcome]
    /\ log' = <<[op |-> "settle", key |-> promises[i].key, val |-> outcome, aux |-> i,
                 unwritten |-> {}, depth |-> 0]>>
    /\ UNCHANGED <<graph, push_default_mode, state, ext, in_progress, watchers,
                   global_watchers, closures, ncalls, hung>>

\* a flag cleared with .then in place of .finally: a rejection leaves it set
Finally_OnSuccess(i) ==
    /\ ~hung
    /\ i \in 1..Len(promises)
    /\ promises[i].throttled
    /\ promises[i].stage = "settled"
    /\ in_progress' = IF promises[i].outcome = "resolved"
                      THEN [in_progress EXCEPT ![promises[i].key] = FALSE]
                      ELSE in_progress
    /\ promises' = [promises EXCEPT ![i].stage = "finalized"]
    /\ log' = <<[op |-> "finally", key |-> promises[i].key, val |-> promises[i].outcome,
                 aux |-> i, unwritten |-> {}, depth |-> 0]>>
    /\ UNCHANGED <<graph, push_default_mode, state, ext, watchers, global_watchers,
                   closures, ncalls, hung>>

\* p.finally(() => in_progress = false)
Finally(i) ==
    /\ ~hung
    /\ i \in 1..Len(promises)
    /\ promises[i].throttled
    /\ promises[i].stage = "settled"
    /\ in_progress' = [in_progress EXCEPT ![promises[i].key] = FALSE]
    /\ promises' = [promises EXCEPT ![i].stage = "finalized"]
    /\ log' = <<[op |-> "finally", key |-> promises[i].key, val |-> promises[i].outcome,
                 aux |-> i, unwritten |-> {}, depth |-> 0]>>
    /\ UNCHANGED <<graph, push_default_mode, state, ext, watchers, global_watchers,
                   closures, ncalls, hung>>

\* the promise update chained on has settled for its reactions
Ready(p) ==
    /\ p.connected
    /\ p.stage = (IF p.throttled THEN "finalized" ELSE "settled")

\* a then callback that drops its value while another promise is outstanding
Then_OnlyAlone(i) ==
    /\ ~hung
    /\ i \in 1..Len(promises)
    /\ Ready(promises[i])
    /\ promises[i].outcome = "resolved"
    /\ LET m0 == Machine(state, ext, in_progress, Drop(promises, i))
           m1 == Emit(m0, "then", promises[i].key, promises[i].val, CurView)
       IN  IF Len(promises) > 1 THEN Commit(m1)
           ELSE Commit(Run(Here, push(Here, m1, <<<<promises[i].key, promises[i].val>>>>, "null")))
    /\ UNCHANGED <<graph, push_default_mode, watchers, global_watchers, closures, ncalls>>

\* a then callback that pushes in accurate mode whatever the default is
Then_Accurate(i) ==
    /\ ~hung
    /\ i \in 1..Len(promises)
    /\ Ready(promises[i])
    /\ promises[i].outcome = "resolved"
    /\ LET m0 == Machine(state, ext, in_progress, Drop(promises, i))
           m1 == Emit(m0, "then", promises[i].key, promises[i].val, CurView)
       IN  Commit(Run(Here, push(Here, m1, <<<<promises[i].key, promises[i].val>>>>, "accurate")))
    /\ UNCHANGED <<graph, push_default_mode, watchers, global_watchers, closures, ncalls>>

\* x.then(value => { this.push({[key]: value}); })
Then(i) ==
    /\ ~hung
    /\ i \in 1..Len(promises)
    /\ Ready(promises[i])
    /\ promises[i].outcome = "resolved"
    /\ LET m0 == Machine(state, ext, in_progress, Drop(promises, i))
           m1 == Emit(m0, "then", promises[i].key, promises[i].val, CurView)
       IN  Commit(Run(Here, push(Here, m1, <<<<promises[i].key, promises[i].val>>>>, "null")))
    /\ UNCHANGED <<graph, push_default_mode, watchers, global_watchers, closures, ncalls>>

\* a catch callback that pushes the key as undefined
Catch_Pushes(i) ==
    /\ ~hung
    /\ i \in 1..Len(promises)
    /\ Ready(promises[i])
    /\ promises[i].outcome = "rejected"
    /\ LET m0 == Machine(state, ext, in_progress, Drop(promises, i))
           m1 == Emit(m0, "catch", promises[i].key, promises[i].outcome, i)
       IN  Commit(Run(Here, push(Here, m1, <<<<promises[i].key, Undefined>>>>, "null")))
    /\ UNCHANGED <<graph, push_default_mode, watchers, global_watchers, closures, ncalls>>

\* .catch(reason => { console.error(reason); })
Catch(i) ==
    /\ ~hung
    /\ i \in 1..Len(promises)
    /\ Ready(promises[i])
    /\ promises[i].outcome = "rejected"
    /\ promises' = Drop(promises, i)
    /\ log' = <<[op |-> "catch", key |-> promises[i].key, val |-> promises[i].outcome, aux |-> i,
                 unwritten |-> {}, depth |-> 0]>>
    /\ UNCHANGED <<graph, push_default_mode, state, ext, in_progress, watchers,
                   global_watchers, closures, ncalls, hung>>

Next ==
    \/ \E b \in Batches(graph), mode \in (Modes \ {push_default_mode}) \cup {"null"} : Push(b, mode)
    \/ \E name \in graph.props, v \in PushValues : SetProperty(name, v)
    \/ \E i \in 1..Len(promises), o \in Outcomes : Settle(i, o)
    \/ \E i \in 1..Len(promises) : Finally(i)
    \/ \E i \in 1..Len(promises) : Then(i)
    \/ \E i \in 1..Len(promises) : Catch(i)

Spec == Init /\ [][Next]_vars

(***************************************************************************)
(* A graph over an external object: N mirrors the Property over the        *)
(* object's field n, D is derived from N, and the request R is started by  *)
(* changes of A and of N.                                                  *)
(***************************************************************************)
GMirrorRequest(throttled) ==
    [keys |-> {"N", "A", "R", "D"}, props |-> {"N"}, reg |-> <<"D", "R">>,
     derivers |-> [D |-> Deriver(<<"N">>, 1, ""),
                   R |-> Request(<<"A", "N">>, 100, throttled)],
     defaults |-> <<<<"A", Num(0)>>>>]

PropGraphs == {GMirrorRequest(FALSE), GMirrorRequest(TRUE)}

\* the values the program writes into the external object
FieldValues == {Num(7), Num(8)}

\* ObjectProperty.on_changed: the Property's watchers, with the field as it is
on_changed(c, m, name) ==
    MirrorWatcher(c, Emit(m, "on_changed", name, View(c, m)[name], "ext"), name)

\* object.n = newValue; property.on_changed()
OnChanged(name, newValue) ==
    /\ ~hung
    /\ ncalls < MaxCalls
    /\ name \in graph.props
    /\ Commit(Run(Here, on_changed(Here, [Current EXCEPT !.ext[name] = newValue], name)))
    /\ ncalls' = ncalls + 1
    /\ UNCHANGED <<graph, push_default_mode, watchers, global_watchers, closures>>

InitProp == \E g \in PropGraphs, mode \in Modes : \E ws \in WatchSetups(g) : InitWith(g, mode, ws)

NextProp ==
    \/ \E k \in graph.keys, v \in PushValues : Push(<<<<k, v>>>>, "null")
    \/ \E name \in graph.props, v \in FieldValues : SetProperty(name, v)
    \/ \E name \in graph.props, v \in FieldValues : OnChanged(name, v)
    \/ \E i \in 1..Len(promises), o \in Outcomes : Settle(i, o)
    \/ \E i \in 1..Len(promises) : Finally(i)
    \/ \E i \in 1..Len(promises) : Then(i)
    \/ \E i \in 1..Len(promises) : Catch(i)

SpecProp == InitProp /\ [][NextProp]_vars

(***************************************************************************)
(* A program that registers watchers, calls the closures it got back, and  *)
(* pushes in between.                                                      *)
(***************************************************************************)
NoWatchers(g) == [watchers |-> [k \in g.keys |-> <<>>], global_watchers |-> <<>>]

InitWatch == \E mode \in Modes : InitWith(GReadme, mode, NoWatchers(GReadme))

NextWatch ==
    \/ \E name \in graph.keys, w \in WatcherFns : Watch(name, w)
    \/ \E w \in WatcherFns : WatchAll(w)
    \/ \E cl \in closures : Unwatch(cl)
    \/ \E v \in PushValues : Push(<<<<"A", v>>>>, "null")

SpecWatch == InitWatch /\ [][NextWatch]_vars

(***************************************************************************)
(* Graphs of synchronous derivers only, pushed in either mode: the         *)
(* README's, the chain, the cycle, and a deriver that reads itself.        *)
(***************************************************************************)
GSelf ==
    [keys |-> {"A", "S"}, props |-> {}, reg |-> <<"S">>,
     derivers |-> [S |-> Deriver(<<"A", "S">>, 1, "")],
     defaults |-> <<<<"A", Num(0)>>>>]

\* D reads the end of the chain A -> B -> C and A itself, and is registered first
GDeep ==
    [keys |-> {"A", "B", "C", "D"}, props |-> {}, reg |-> <<"D", "C", "B">>,
     derivers |-> [B |-> Deriver(<<"A">>, 1, ""),
                   C |-> Deriver(<<"B">>, 2, ""),
                   D |-> Deriver(<<"C", "A">>, 0, "")],
     defaults |-> <<<<"A", Num(0)>>>>]

PureGraphs == {GReadme, GChain, GDeep, GCycle, GSelf}

InitPure == \E g \in PureGraphs, mode \in Modes : InitWith(g, mode, NoWatchers(g))

NextPure == \E b \in Batches(graph), mode \in Modes : Push(b, mode)

SpecPure == InitPure /\ [][NextPure]_vars

(***************************************************************************)
(* A graph whose request R is given as a bare function reading state.A,    *)
(* wrapped with ThrottleRequest or not; D is derived from R.               *)
(***************************************************************************)
GProbe(throttled) ==
    [keys |-> {"A", "R", "D"}, props |-> {}, reg |-> <<"D", "R">>,
     derivers |-> [D |-> Deriver(<<"R">>, 1, ""),
                   R |-> Request(<<"A">>, 100, throttled)],
     defaults |-> <<<<"A", Num(0)>>>>, probed |-> <<"R">>]

ProbeGraphs == {GProbe(FALSE), GProbe(TRUE)}

InitProbe == \E g \in ProbeGraphs, mode \in Modes : \E ws \in WatchSetups(g) : InitWith(g, mode, ws)

NextProbe ==
    \/ \E k \in graph.keys, v \in PushValues : Push(<<<<k, v>>>>, "null")
    \/ \E i \in 1..Len(promises), o \in Outcomes : Settle(i, o)
    \/ \E i \in 1..Len(promises) : Finally(i)
    \/ \E i \in 1..Len(promises) : Then(i)
    \/ \E i \in 1..Len(promises) : Catch(i)

SpecProbe == InitProbe /\ [][NextProbe]_vars

(***************************************************************************)
(* Reading the log of the last handler.                                    *)
(***************************************************************************)
\* the calls of push in the log, and those the handler made itself
PushEvents == {j \in 1..Len(log) : log[j].op = "push"}

\* the mode push event j ran in
ModeOf(j) == IF log[j].aux.fast THEN "fast" ELSE "accurate"

\* where the call of push logged at j returned, 0 when it has not
ReturnOf(j) ==
    LET R == {r \in (j + 1)..Len(log) : log[r].op = "return" /\ log[r].depth = log[j].depth + 1}
    IN  IF R = {} THEN 0 ELSE CHOOSE r \in R : \A q \in R : r <= q

Returned(j) == ReturnOf(j) # 0

\* the events of the call of push logged at j: those of its own frame, up to its return
Own(j) ==
    LET r == ReturnOf(j)
    IN  {i \in (j + 1)..(IF r = 0 THEN Len(log) ELSE r) : log[i].depth = log[j].depth + 1}

\* the keys push j passed to update, in order
Updated(j) ==
    LET r == ReturnOf(j)
        own == SelectSeq(SubSeq(log, j + 1, IF r = 0 THEN Len(log) ELSE r),
                         LAMBDA e : e.op = "update" /\ e.depth = log[j].depth + 1)
    IN  [i \in 1..Len(own) |-> own[i].key]

Count(s, x) == Cardinality({i \in 1..Len(s) : s[i] = x})

\* the keys that depend on a key of S, directly or through other derivers
RECURSIVE Reach(_, _)
Reach(g, S) ==
    LET more == S \cup {k \in DOMAIN g.derivers : \E p \in S : Has(g.derivers[k].params, p)}
    IN  IF more = S THEN S ELSE Reach(g, more)

\* no deriver depends on itself, directly or through other derivers
Acyclic(g) ==
    \A k \in DOMAIN g.derivers : k \notin Reach(g, {d \in DOMAIN g.derivers : Has(g.derivers[d].params, k)})

(***************************************************************************)
(* C1  Propagation: once push({A: x}) has returned (the constructor's      *)
(* defaults push included), in either mode, every synchronous deriver B    *)
(* whose only param is A holds its func applied to the state with A = x    *)
(* and is in the list push returned; A is a raw value of the batch, a key  *)
(* push does not itself recompute.  In the README's graph B is 5 after     *)
(* construction and 15 after push({A: 10}), and B is in the list that push *)
(* returned.                                                               *)
(***************************************************************************)
\* B, whose only param is A, holds func(state with A = x) after push j
Propagated(j, B) ==
    LET A == log[j].val[1][1]
        x == log[j].val[1][2]
    IN  (IsSync(graph, B) /\ graph.derivers[B].params = <<A>>) =>
            CurView[B] = func(graph.derivers[B], [CurView EXCEPT ![A] = x])

\* the pushes of one key that were the handler's own call and have returned
SinglePushes ==
    IF hung THEN {} ELSE {j \in PushEvents : log[j].depth = 0 /\ Len(log[j].val) = 1 /\ Returned(j)}

C2_NoStaleRead ==
    \A j \in PushEvents :
        (ModeOf(j) = "accurate" /\ Acyclic(graph) /\ Returned(j)) =>
            \A i \in Own(j) :
                /\ (log[i].op = "update" /\ HasDeriver(graph, log[i].key)) =>
                      \A p \in Range(graph.derivers[log[i].key].params) : ~Has(log[i].aux, p)
                /\ (log[i].op = "compute" /\ log[j].depth = 0) =>
                      \A p \in Range(graph.derivers[log[i].key].params) :
                          p \in Reach(graph, Range(Keys(log[j].val))) => log[i].aux[p] = CurView[p]

\* in A -> B -> C, an accurate push of A held C back until B was recomputed
C2_Witness ==
    /\ graph = GChain
    /\ ncalls = 1
    /\ log[1].op = "push"
    /\ ModeOf(1) = "accurate"
    /\ Keys(log[1].val) = <<"A">>
    /\ Returned(1)
    /\ Updated(1) = <<"A", "B", "D", "C">>
    /\ state["C"] = Add(state["A"], state["B"])

(***************************************************************************)
(* C3  As stated: whenever a deriver's func (synchronous or request) or a  *)
(* watcher is called, every value of every batch being pushed has been     *)
(* written.  Refuted for a batch with a mirrored key: Object.assign writes *)
(* it through the Property's setter, whose watcher notifies and pushes the *)
(* key's dependents before the rest of the batch is written.               *)
(***************************************************************************)
C3_AtomicApply ==
    \A i \in 1..Len(log) :
        log[i].op \in {"compute", "call", "notify"} => log[i].unwritten = {}

(***************************************************************************)
(* C4  Cycle fallback of accurate mode: the keys still pending when a scan *)
(* makes no progress are each updated exactly once, in ascending order of  *)
(* the deriver's order string, or of the key when it has none; for X <-> Y *)
(* push({X: 1}) returns having updated X once and Y once.                  *)
(***************************************************************************)
\* the positions of push j's updates made in the cycle fallback
FallbackOf(j) == {i \in Own(j) : log[i].op = "update" /\ log[i].val = "fallback"}

\* the string the fallback sorts a key by
OrderString(k) == IF graph.derivers[k].order # "" THEN graph.derivers[k].order ELSE k

C4_CycleFallback ==
    \A j \in PushEvents :
        (ModeOf(j) = "accurate" /\ Returned(j)) =>
            LET F == FallbackOf(j)
            IN  /\ \A i \in F :
                      \* the keys pending when the fallback starts are updated once each
                      /\ \A k \in Range(log[i].aux) : Cardinality({e \in F : log[e].key = k}) = 1
                      \* in ascending order of their strings
                      /\ \A e \in F : e > i =>
                            IndexOf(Collation, OrderString(log[i].key))
                                <= IndexOf(Collation, OrderString(log[e].key))
                /\ (graph \in {GCycle, GCycleOrder} /\ Keys(log[j].val) = <<"X">>) =>
                      (Count(Updated(j), "X") = 1 /\ Count(Updated(j), "Y") = 1)

\* X carries order "z": push({X: 1}) updated Y, then X
C4_Witness ==
    /\ graph = GCycleOrder
    /\ ncalls = 1
    /\ log[1].op = "push"
    /\ log[1].val = <<<<"X", Num(1)>>>>
    /\ ModeOf(1) = "accurate"
    /\ Returned(1)
    /\ Updated(1) = <<"Y", "X">>
    /\ FallbackOf(1) # {}

(***************************************************************************)
(* C5  Accurate mode terminates: a handler whose pushes all ran in         *)
(* accurate mode returns, and each returned accurate push passed exactly   *)
(* the keys of the batch's closure under the dependency index to update,   *)
(* each once.                                                              *)
(***************************************************************************)
C5_AccurateTerminates ==
    /\ (\A j \in PushEvents : ModeOf(j) = "accurate") => ~hung
    /\ \A j \in PushEvents :
          (ModeOf(j) = "accurate" /\ Returned(j)) =>
              /\ Range(Updated(j)) = Reach(graph, Range(Keys(log[j].val)))
              /\ \A k \in graph.keys : Count(Updated(j), k) <= 1
              /\ log[ReturnOf(j)].val = Updated(j)

\* an accurate push on the cyclic graph returned after updating X, Y and Z
C5_Witness ==
    /\ graph = GCycle
    /\ ncalls = 1
    /\ log[1].op = "push"
    /\ ModeOf(1) = "accurate"
    /\ Keys(log[1].val) = <<"Y">>
    /\ Returned(1)
    /\ Range(Updated(1)) = {"X", "Y", "Z"}

(***************************************************************************)
(* C6  Throttle single-flight: a throttled request never has more than one *)
(* unsettled promise; the wrapper called while its flag is set returns     *)
(* null and calls nothing, so a handler starts at most one request for the *)
(* key, and none while a promise of the key is unsettled.                  *)
(***************************************************************************)
\* the unsettled promises of key k
Outstanding(k) == {i \in 1..Len(promises) : promises[i].key = k /\ promises[i].stage = "pending"}

\* where the last handler called the underlying request function of k
Requests(k) == {i \in 1..Len(log) : log[i].op = "request" /\ log[i].key = k}

C6_SingleFlight ==
    \A k \in DOMAIN in_progress :
        /\ Cardinality(Outstanding(k)) <= 1
        /\ Outstanding(k) # {} => in_progress[k]
        /\ Cardinality(Requests(k)) <= 1
        /\ \A i \in 1..Len(log) :
              (log[i].op = "call" /\ log[i].key = k /\ log[i].aux) =>
                  /\ log[i + 1].op = "throttled"
                  /\ Requests(k) = {}

\* a second push of A reached the throttled request while the first promise was unsettled
C6_Witness ==
    /\ graph = GRequest(TRUE)
    /\ ncalls = 2
    /\ \E i \in 1..Len(log) : log[i].op = "throttled" /\ log[i].key = "R"
    /\ Len(promises) = 1
    /\ Outstanding("R") = {1}

(***************************************************************************)
(* C7  The throttle's flag: the finally callback clears it whether the     *)
(* promise resolved or rejected; the flag is set only while a promise of   *)
(* the key is unsettled or settled with its finally callback still to run; *)
(* and a call of the wrapper with the flag clear calls the request.        *)
(***************************************************************************)
C7_FlagCleared ==
    /\ \A k \in DOMAIN in_progress :
          in_progress[k] =>
              \E i \in 1..Len(promises) :
                  promises[i].key = k /\ promises[i].stage \in {"pending", "settled"}
    /\ (log # <<>> /\ log[1].op = "finally") => ~in_progress[log[1].key]
    /\ \A i \in 1..Len(log) :
          (log[i].op = "call" /\ ~log[i].aux) =>
              (log[i + 1].op = "request" /\ log[i + 1].key = log[i].key)

\* the first promise rejected, and the next push called the request again
C7_Witness ==
    /\ graph = GRequest(TRUE)
    /\ ncalls = 2
    /\ Len(promises) = 2
    /\ promises[1].stage = "finalized"
    /\ promises[1].outcome = "rejected"
    /\ Requests("R") # {}
    /\ Outstanding("R") = {2}

(***************************************************************************)
(* C8  update on a request key: with the key in the batch of its push, the *)
(* request is not called, the key's watchers and the global ones are       *)
(* notified, and they read the batch's value; with the key not in the      *)
(* batch, the request is called once and nothing is notified.              *)
(***************************************************************************)
\* the batch of the push whose frame logged event i
BatchOf(i) ==
    LET P == {j \in 1..(i - 1) : log[j].op = "push" /\ log[j].depth = log[i].depth - 1}
    IN  log[CHOOSE j \in P : \A q \in P : q <= j].val

ValueIn(batch, key) == batch[IndexOf(Keys(batch), key)][2]

\* the watchers dispatch_change calls for a key, in order
Listeners(key) == watchers[key] \o global_watchers

RequestUpdates == {i \in 1..Len(log) : log[i].op = "update" /\ IsRequest(graph, log[i].key)}

C8_RequestInBatch ==
    \A i \in RequestUpdates :
        LET key == log[i].key
            batch == BatchOf(i)
            n == Len(Listeners(key))
        IN  IF Has(Keys(batch), key)
            THEN /\ \A e \in 1..n :
                       /\ log[i + e].op = "notify"
                       /\ log[i + e].key = key
                       /\ log[i + e].val = Listeners(key)[e]
                       /\ log[i + e].aux.view[key] = ValueIn(batch, key)
                 /\ log[i + n + 1].op \in {"update", "return"}
                 /\ ~hung => CurView[key] = ValueIn(batch, key)
            ELSE /\ log[i + 1].op = "call"
                 /\ log[i + 1].key = key
                 /\ log[i + 2].op \in {"request", "throttled"}
                 /\ log[i + 3].op \in {"update", "return"}

\* push({R: 1}) with watchers on R: they were told, the request was not called
C8_Witness ==
    /\ graph = GRequest(FALSE)
    /\ ncalls = 1
    /\ log[1].op = "push"
    /\ log[1].val = <<<<"R", Num(1)>>>>
    /\ \E i \in RequestUpdates : log[i + 1].op = "notify" /\ log[i + 1].key = "R"
    /\ promises = <<>>
    /\ state["R"] = Num(1)

(***************************************************************************)
(* C9  The then callback of a request's promise that resolved with v calls *)
(* push({R: v}) with no mode, which runs in the default mode; when it has  *)
(* returned, state.R is v, R's watchers and the global ones have been told *)
(* of R with v in state, and every synchronous deriver that depends on R,  *)
(* directly or through others, has been updated and holds its func of the  *)
(* state.                                                                  *)
(***************************************************************************)
C9_ResolvedPushes ==
    (log # <<>> /\ log[1].op = "then") =>
        LET R == log[1].key
            v == log[1].val
        IN  /\ Len(log) >= 2
            /\ log[2].op = "push"
            /\ log[2].val = <<<<R, v>>>>
            /\ log[2].aux.mode = "null"
            /\ ModeOf(2) = push_default_mode
            /\ ~hung =>
                  /\ Returned(2)
                  /\ CurView[R] = v
                  /\ \A n \in 1..Len(Listeners(R)) :
                        \E e \in Own(2) :
                            /\ log[e].op = "notify"
                            /\ log[e].key = R
                            /\ log[e].val = Listeners(R)[n]
                            /\ log[e].aux.view[R] = v
                  /\ \A D \in Reach(graph, {R}) :
                        IsSync(graph, D) =>
                            /\ Has(Updated(2), D)
                            /\ CurView[D] = func(graph.derivers[D], CurView)

\* the throttled request resolved with 101 under default mode fast: R is 101 and D is 102
C9_Witness ==
    /\ graph = GRequest(TRUE)
    /\ push_default_mode = "fast"
    /\ log # <<>>
    /\ log[1].op = "then"
    /\ log[1].val = Num(101)
    /\ Returned(2)
    /\ state["R"] = Num(101)
    /\ state["D"] = Num(102)

(***************************************************************************)
(* C10  A request's promise that rejects: the steps that handle it, the    *)
(* settlement, the finally callback and the catch callback, write no key,  *)
(* notify no watcher and push nothing, and none of them fails to return.   *)
(***************************************************************************)
C10_RejectionCaught ==
    [][(log' # <<>> /\ log'[1].op \in {"settle", "finally", "catch"} /\ log'[1].val = "rejected") =>
           /\ state' = state
           /\ ext' = ext
           /\ Len(log') = 1
           /\ ~hung']_vars

\* the catch callback has run on the rejected promise of R, and R is as it was
C10_Witness ==
    /\ graph = GRequest(FALSE)
    /\ ncalls = 1
    /\ log # <<>>
    /\ log[1].op = "catch"
    /\ log[1].key = "R"
    /\ promises = <<>>
    /\ state["R"] = Undefined
    /\ state["D"] = NaN

(***************************************************************************)
(* C11  As stated: every change of a key K in the params of a request R    *)
(* calls R's function, unless the throttle holds it back: a push with K    *)
(* and not R in its batch, and a change the external Property mirrored at  *)
(* K reports.  Refuted for the Property: its watcher pushes the dependents *)
(* of K as the batch, R among them, and update does not call a request     *)
(* whose key is in the batch.                                              *)
(***************************************************************************)
\* the handler called R's function
Called(R) == \E e \in 1..Len(log) : log[e].op = "call" /\ log[e].key = R

\* the handler began with the external Property at K reporting a change
PropertyChanged(K) ==
    /\ log # <<>>
    /\ log[1].key = K
    /\ log[1].depth = 0
    /\ log[1].op \in {"write", "on_changed"}
    /\ log[1].aux = "ext"

C11_ChangeTriggersRequest ==
    \A R \in DOMAIN graph.derivers :
        IsRequest(graph, R) =>
            \A K \in Range(graph.derivers[R].params) :
                /\ \A j \in PushEvents :
                      (log[j].depth = 0 /\ Returned(j) /\ Has(Keys(log[j].val), K)
                            /\ ~Has(Keys(log[j].val), R)) => Called(R)
                /\ (PropertyChanged(K) /\ ~hung) => Called(R)

(***************************************************************************)
(* C12  External mirror: the program sets the object's field and calls the *)
(* Property's on_changed; when that has returned, state.N reads the new    *)
(* value, every watcher registered on N was called exactly once for N, and *)
(* every synchronous deriver with N in its params has been recomputed and  *)
(* holds its func of the state.                                            *)
(***************************************************************************)
\* how many times the handler called watcher w for key
Notified(key, w) ==
    Cardinality({e \in 1..Len(log) : log[e].op = "notify" /\ log[e].key = key /\ log[e].val = w})

C12_ExternalMirror ==
    (log # <<>> /\ log[1].op = "on_changed" /\ ~hung) =>
        LET N == log[1].key
        IN  /\ CurView[N] = log[1].val
            /\ ext[N] = log[1].val
            /\ \A n \in 1..Len(watchers[N]) : Notified(N, watchers[N][n]) = 1
            /\ \A D \in DOMAIN graph.derivers :
                  (IsSync(graph, D) /\ Has(graph.derivers[D].params, N)) =>
                      /\ \E e \in 1..Len(log) :
                            /\ log[e].op = "compute"
                            /\ log[e].key = D
                            /\ log[e].aux[N] = log[1].val
                      /\ CurView[D] = func(graph.derivers[D], CurView)

\* n was set to 7 and on_changed called: N reads 7, its watcher was told, D is 8
C12_Witness ==
    /\ graph = GMirrorRequest(FALSE)
    /\ log # <<>>
    /\ log[1].op = "on_changed"
    /\ log[1].val = Num(7)
    /\ watchers["N"] = <<"w">>
    /\ Notified("N", "w") = 1
    /\ CurView["N"] = Num(7)
    /\ state["D"] = Num(8)

(***************************************************************************)
(* C13  As stated: a call of the closure watch or watch_all returned takes *)
(* the one registration it was returned for out of its list and leaves all *)
(* other registrations of that list, and every other list, as they were; a *)
(* second call of the same closure changes nothing.  Refuted when the same *)
(* function is registered twice on a list: the closure filters the list by *)
(* function, so one call removes both registrations.                       *)
(***************************************************************************)
\* the list a closure works on, before and after the step
ListOf(name) == IF name = "*" THEN global_watchers ELSE watchers[name]

ListOfNext(name) == IF name = "*" THEN global_watchers' ELSE watchers'[name]

C13_Unsubscribe ==
    [][(log' # <<>> /\ log'[1].op = "unwatch") =>
          LET name == log'[1].key
              w == log'[1].val
          IN  /\ \A k \in (graph.keys \cup {"*"}) \ {name} : ListOfNext(k) = ListOf(k)
              /\ Without(ListOfNext(name), w) = Without(ListOf(name), w)
              /\ IF log'[1].aux.again
                 THEN ListOfNext(name) = ListOf(name)
                 ELSE Count(ListOfNext(name), w) = Count(ListOf(name), w) - 1]_vars

(***************************************************************************)
(* C14  The list push returns: exactly the keys the push passed to update, *)
(* in the order it did, the sequence of the keys it computed being the     *)
(* synchronous derivers' keys of that list; in accurate mode the keys      *)
(* updated in the stabilization scans come before those of the fallback.   *)
(* A key is in the list whether or not update computed anything for it.    *)
(***************************************************************************)
\* the events of push j's own frame up to its return, in order
OwnEvents(j) ==
    LET r == ReturnOf(j)
    IN  SelectSeq(SubSeq(log, j + 1, IF r = 0 THEN Len(log) ELSE r),
                  LAMBDA e : e.depth = log[j].depth + 1)

\* the keys push j computed a value for, in order
Computed(j) ==
    LET own == SelectSeq(OwnEvents(j), LAMBDA e : e.op = "compute")
    IN  [i \in 1..Len(own) |-> own[i].key]

\* the phases of push j's updates, in order
Phases(j) ==
    LET own == SelectSeq(OwnEvents(j), LAMBDA e : e.op = "update")
    IN  [i \in 1..Len(own) |-> own[i].val]

C14_ReturnedList ==
    \A j \in PushEvents :
        Returned(j) =>
            LET list == log[ReturnOf(j)].val
            IN  /\ list = Updated(j)
                /\ Computed(j) = SelectSeq(list, LAMBDA k : IsSync(graph, k))
                /\ ModeOf(j) = "accurate" =>
                      \A a, b \in 1..Len(list) :
                          (a < b /\ Phases(j)[a] = "fallback") => Phases(j)[b] = "fallback"

\* C14 as stated: the list is the keys the push computed, in order.  Refuted
\* by every batch key that has no synchronous deriver: it is in the list
\* and nothing was computed for it.
C14_AsStated ==
    \A j \in PushEvents : Returned(j) => log[ReturnOf(j)].val = Computed(j)

\* a fast push of A in the chain returned A, C, B, C, D having computed C, B, C, D
C14_Witness ==
    /\ graph = GChain
    /\ ncalls = 1
    /\ log[1].op = "push"
    /\ Keys(log[1].val) = <<"A">>
    /\ ModeOf(1) = "fast"
    /\ Returned(1)
    /\ log[ReturnOf(1)].val = <<"A", "C", "B", "C", "D">>
    /\ Computed(1) = <<"C", "B", "C", "D">>

(***************************************************************************)
(* C15  As stated: in accurate mode every key still pending when a scan    *)
(* makes no progress depends on itself through derivers' params.  Refuted  *)
(* by a key downstream of a cycle: Z reads X, X and Y read each other; Z   *)
(* can never be updated in a scan while X is pending, and is left to the   *)
(* fallback with them.                                                     *)
(***************************************************************************)
\* k depends on itself, directly or through other derivers
OnCycle(g, k) == k \in Reach(g, {d \in DOMAIN g.derivers : Has(g.derivers[d].params, k)})

C15_PendingAreCycles ==
    \A j \in PushEvents :
        ModeOf(j) = "accurate" =>
            \A i \in FallbackOf(j) : \A k \in Range(log[i].aux) : OnCycle(graph, k)

(***************************************************************************)
(* C16  As stated: in fast mode every dequeue of a key is followed by the  *)
(* key's change notification, its own watchers in registration order and   *)
(* then the global ones, once each, batch keys without a deriver included. *)
(* Refuted: update dispatches only inside `if(d)`, so a key with no        *)
(* deriver is never announced, and neither is a request that it calls.     *)
(***************************************************************************)
\* the events right after update event i are the notifications of its key
NotifiedAfter(i) ==
    LET key == log[i].key
        first == IF i < Len(log) /\ log[i + 1].op = "compute" THEN i + 2 ELSE i + 1
    IN  \A n \in 1..Len(Listeners(key)) :
            /\ first + n - 1 <= Len(log)
            /\ log[first + n - 1].op = "notify"
            /\ log[first + n - 1].key = key
            /\ log[first + n - 1].val = Listeners(key)[n]

C16_FastNotifiesEveryDequeue ==
    \A i \in 1..Len(log) :
        (log[i].op = "update" /\ log[i].val = "fast") => NotifiedAfter(i)

\* C16 as the code has it: in fast mode a dequeued key is announced, its own
\* watchers in registration order and then the global ones, once each, when
\* it has a synchronous deriver or is a request in the batch; a key with no
\* deriver and a request the update calls are not announced
C16_FastNotifiesDerived ==
    \A i \in 1..Len(log) :
        (log[i].op = "update" /\ log[i].val = "fast") =>
            LET key == log[i].key
                n == Len(Listeners(key))
                first == IF i < Len(log) /\ log[i + 1].op = "compute" THEN i + 2 ELSE i + 1
            IN  IF IsSync(graph, key) \/ (IsRequest(graph, key) /\ Has(Keys(BatchOf(i)), key))
                THEN /\ NotifiedAfter(i)
                     /\ first + n <= Len(log) => log[first + n].op # "notify"
                ELSE i < Len(log) => log[i + 1].op # "notify"

\* a fast push of A in the README's graph with watchers on A and B: A was
\* dequeued and not announced, B was computed and announced to w, then to g
C16_Witness ==
    /\ graph = GReadme
    /\ watchers["A"] = <<"w">>
    /\ ncalls = 1
    /\ log[1].op = "push"
    /\ ModeOf(1) = "fast"
    /\ Keys(log[1].val) = <<"A">>
    /\ Returned(1)
    /\ log[3].op = "update" /\ log[3].key = "A"
    /\ log[4].op = "update" /\ log[4].key = "B"
    /\ log[6].op = "notify" /\ log[6].key = "B" /\ log[6].val = "w"
    /\ log[7].op = "notify" /\ log[7].key = "B" /\ log[7].val = "g"

(***************************************************************************)
(* C17  A fast push returns exactly when no key reachable from its batch   *)
(* through the dependency index depends on itself (a deriver with its own  *)
(* key in its params included): then it has computed every reachable       *)
(* synchronous deriver at least once; otherwise it never returns.          *)
(***************************************************************************)
\* the handler was a call of push in fast mode
FastPush == log # <<>> /\ log[1].op = "push" /\ log[1].depth = 0 /\ ModeOf(1) = "fast"

C17_FastTerminates ==
    FastPush =>
        LET reachable == Reach(graph, Range(Keys(log[1].val)))
        IN  /\ hung <=> \E k \in reachable : OnCycle(graph, k)
            /\ ~hung =>
                  /\ Returned(1)
                  /\ \A k \in reachable : IsSync(graph, k) => Has(Computed(1), k)

\* push({A: ...}) in fast mode on the deriver that reads itself never returned
C17_Witness ==
    /\ graph = GSelf
    /\ FastPush
    /\ Keys(log[1].val) = <<"A">>
    /\ hung
    /\ ~Returned(1)

(***************************************************************************)
(* C18  On an acyclic graph of synchronous derivers, from every state and  *)
(* for every batch, a fast push and an accurate push both return and leave *)
(* the same state: every deriver in the closure of the batch holds its     *)
(* func of the final state, and in the fast push the last computation of a *)
(* key comes after the last computation of each of its params.             *)
(***************************************************************************)
\* where trace l last computed key k, 0 when it did not
LastCompute(l, k) ==
    LET C == {i \in 1..Len(l) : l[i].op = "compute" /\ l[i].key = k}
    IN  IF C = {} THEN 0 ELSE CHOOSE i \in C : \A q \in C : q <= i

C18_ModesAgree ==
    (Acyclic(graph) /\ ~hung) =>
        \A b \in Batches(graph) :
            LET fast == Run(Here, push(Here, Current, b, "fast"))
                accurate == Run(Here, push(Here, Current, b, "accurate"))
            IN  /\ ~fast.hung
                /\ ~accurate.hung
                /\ fast.state = accurate.state
                /\ \A k \in Reach(graph, Range(Keys(b))) :
                      IsSync(graph, k) =>
                          /\ fast.state[k] = func(graph.derivers[k], fast.state)
                          /\ LastCompute(fast.log, k) > 0
                          /\ \A q \in Range(graph.derivers[k].params) :
                                LastCompute(fast.log, k) > LastCompute(fast.log, q)

\* a fast push of A on the chain computed C twice, first from the old B, and
\* left C as the sum of the final A and B
C18_Witness ==
    /\ graph = GChain
    /\ FastPush
    /\ Keys(log[1].val) = <<"A">>
    /\ Returned(1)
    /\ Count(Computed(1), "C") = 2
    /\ \E i \in 1..Len(log) : log[i].op = "compute" /\ log[i].key = "C" /\ log[i].val # state["C"]
    /\ state["C"] = Add(state["A"], state["B"])
    /\ state["D"] = Add(state["B"], Num(2))

(***************************************************************************)
(* C19  A value pushed for a key with a synchronous deriver does not       *)
(* survive the push: in both modes, when push has returned, the deriver    *)
(* was computed after the batch was written and the key holds the result   *)
(* of its last computation (on an acyclic graph, its func of the final     *)
(* state).  In the cycle X <-> Y with no order strings, accurate           *)
(* push({X: v}) computes X first, from the value Y had before the push.    *)
(***************************************************************************)
\* where the handler wrote the batch value of key k
BatchWrite(k) == CHOOSE i \in 1..Len(log) : log[i].op = "write" /\ log[i].key = k

C19_RawValueOverwritten ==
    (log # <<>> /\ log[1].op = "push" /\ log[1].depth = 0 /\ ~hung) =>
        /\ \A k \in Range(Keys(log[1].val)) :
              IsSync(graph, k) =>
                  /\ LastCompute(log, k) > BatchWrite(k)
                  /\ CurView[k] = log[LastCompute(log, k)].val
                  /\ Acyclic(graph) => CurView[k] = func(graph.derivers[k], CurView)
        /\ (graph = GCycle /\ Keys(log[1].val) = <<"X">>) =>
              LET cx == LastCompute(log, "X")
              IN  /\ \A i \in 1..cx : log[i].op \in {"write", "compute"} => log[i].key = "X"
                  /\ state["X"] = Add(Num(graph.derivers["X"].offset), log[cx].aux["Y"])
                  /\ LastCompute(log, "Y") > cx

\* after construction Y is 3; accurate push({X: 1}) left X = 3 + 1
C19_Witness ==
    /\ graph = GCycle
    /\ ncalls = 1
    /\ log[1].op = "push"
    /\ log[1].val = <<<<"X", Num(1)>>>>
    /\ ModeOf(1) = "accurate"
    /\ Returned(1)
    /\ state["X"] = Num(4)

(***************************************************************************)
(* C20  A request that is not throttled: every call of it starts a new     *)
(* computation whatever is outstanding, and the then callback of a         *)
(* resolved promise leaves its own value in state.R whatever was there and *)
(* whatever other promises of the key are outstanding: the result whose    *)
(* callback runs last stays, a stale one over a newer one included.        *)
(***************************************************************************)
Unthrottled(k) == IsRequest(graph, k) /\ ~graph.derivers[k].throttled

C20_LastSettledWins ==
    /\ \A i \in 1..Len(log) :
          (log[i].op = "call" /\ Unthrottled(log[i].key)) =>
              /\ log[i + 1].op = "request"
              /\ log[i + 1].aux <= Len(promises) + 1
    /\ (log # <<>> /\ log[1].op = "then" /\ Unthrottled(log[1].key) /\ ~hung) =>
          state[log[1].key] = log[1].val

\* A was pushed as 1 and then as 10; the result for A = 10 arrived first and
\* the result for A = 1 then replaced it
C20_Witness ==
    /\ graph = GRequest(FALSE)
    /\ ncalls = 2
    /\ state["A"] = Num(10)
    /\ log # <<>>
    /\ log[1].op = "then"
    /\ log[1].val = Num(101)
    /\ log[1].aux["R"] = Num(110)
    /\ state["R"] = Num(101)
    /\ promises = <<>>

(***************************************************************************)
(* C21  A request given as a bare function: the constructor calls it once, *)
(* with the reporter, and the promise that call returns is kept by nobody: *)
(* it gets no then or catch callback and its settlement writes and         *)
(* announces nothing.  With ThrottleRequest around the function the call   *)
(* sets the flag: until that promise has settled and its finally callback  *)
(* has run, every update that calls the request, the one of the            *)
(* constructor's defaults push included, gets null and the function is not *)
(* called.                                                                 *)
(***************************************************************************)
\* the promises of R that the probe call made
Probes(R) == {i \in 1..Len(promises) : promises[i].key = R /\ ~promises[i].connected}

\* the log is the constructor's
Constructing == log # <<>> /\ log[1].op = "probe"

C21_ProbeCall ==
    \A R \in Range(Probed(graph)) :
        IsRequest(graph, R) =>
            \* called once, with the reporter: it read undefined
            /\ Cardinality(Probes(R)) = 1
            /\ \A i \in Probes(R) : promises[i].val = NaN
            /\ Constructing =>
                  /\ Cardinality({e \in 1..Len(log) : log[e].op = "probe" /\ log[e].key = R}) = 1
                  /\ \E e \in 1..Len(log) :
                        log[e].op = "probe" /\ log[e].key = R /\ log[e + 1].op = "request"
            \* never connected: no callback is ready for it, its steps do nothing else
            /\ \A i \in Probes(R) : ~Ready(promises[i])
            /\ (log # <<>> /\ log[1].op \in {"settle", "finally"}) => Len(log) = 1
            \* throttled: the flag is taken until the probe's promise is through
            /\ graph.derivers[R].throttled =>
                  \A i \in Probes(R) :
                      promises[i].stage \in {"pending", "settled"} =>
                          /\ in_progress[R]
                          /\ Cardinality(Outstanding(R)) <= 1
                          /\ \A e \in 1..Len(log) :
                                (log[e].op = "call" /\ log[e].key = R) =>
                                    (log[e].aux /\ log[e + 1].op = "throttled")

\* the throttled bare request: the constructor probed it, and its defaults
\* push reached R and got null; the only promise is the probe's
C21_Witness ==
    /\ graph = GProbe(TRUE)
    /\ ncalls = 0
    /\ Constructing
    /\ \E e \in 1..Len(log) : log[e].op = "call" /\ log[e].key = "R" /\ log[e + 1].op = "throttled"
    /\ Len(promises) = 1
    /\ Probes("R") = {1}
    /\ promises[1].stage = "pending"
    /\ in_progress["R"]
    /\ state["R"] = Undefined

====
